---- MODULE Spec2Model ----
(***************************************************************************)
(* LoginApiService (src/services/login/api.ts): request de-duplication and *)
(* credential refresh.  Two versions of the class are modelled: the        *)
(* requestCache (Map) version and the promise-field version (loginPromise, *)
(* currentCredentialsKey, refreshPromise).                                 *)
(* BrandProfileApiService (src/services/brandProfile/api.ts) is modelled   *)
(* with the same requests and calls (SpecBrand).                           *)
(*                                                                         *)
(* Execution model: JavaScript run-to-completion.  Every action is one     *)
(* synchronous segment of a method: from its call or from the resumption   *)
(* of an await up to the next await or return.  Segments of different      *)
(* calls interleave arbitrarily, except that the reactions of one promise  *)
(* run in registration order (the owner of a request awaits its promise    *)
(* before any other caller can obtain it, so it resumes first).            *)
(***************************************************************************)
EXTENDS Integers, Sequences, FiniteSets, Bags, TLC

VARIABLES storage, requestCache, loginPromise, currentCredentialsKey,
          refreshPromise, reqs, calls, nowMs,
          getAllPromise, getByUserPromise, getByIdPromises,
          instance, userCaches

vars == <<storage, requestCache, loginPromise, currentCredentialsKey,
          refreshPromise, reqs, calls, nowMs,
          getAllPromise, getByUserPromise, getByIdPromises,
          instance, userCaches>>

\* ---------------------------------------------------------------- bounds
\* calls in progress or settled and not yet forgotten; transport requests
NumCallers == 3
MaxReqs == 2
\* transport requests when only login and logout are called
MaxLoginReqs == 3
\* requests of the brand profile and user profile services
MaxGets == 2
\* UserProfileApiService objects constructed
MaxInstances == 2
\* requests of the profile services once PATCH requests are among them
MaxPatches == 3

\* users in one response of GET /users; the pages a component asks for
MaxUsers == 2
MaxPage == 3

\* ------------------------------------------------------------- constants
ONE_MINUTE_IN_SECONDS == 60
\* insertMockUser: const targetUserId = 4
targetUserId == 4
\* useGetUsersPaginated: pageSize = 13
defaultPageSize == 13

\* ---------------------------------------------------------------- values
\* Strings that take part in key construction are sequences of characters.
Payloads == { [email |-> <<"a">>, password |-> <<"b", ":", "p">>],
              [email |-> <<"a", ":", "b">>, password |-> <<"p">>] }
MorePayloads == Payloads \cup { [email |-> <<"a">>, password |-> <<"p">>] }
NowValues == { 39999, 40000 }

\* JavaScript null, as a promise value / method result.
NullResult == [t |-> "null"]
CredResult(c) == [t |-> "cred", v |-> c]
ErrorResult(q) == [t |-> "error", of |-> q]
Pending == [t |-> "pending"]

\* An access token is the sequence of its "."-separated segments.  The
\* payload segment records what atob / JSON.parse make of it.
Header == [seg |-> "header"]
Signature == [seg |-> "signature"]
PayloadSeg(exp, jti) ==
  [seg |-> "payload", b64 |-> TRUE, json |-> "object",
   claims |-> [exp |-> exp, jti |-> jti]]
NoExpSeg == [seg |-> "payload", b64 |-> TRUE, json |-> "object", claims |-> [jti |-> 0]]
BadB64Seg == [seg |-> "payload", b64 |-> FALSE, json |-> "object", claims |-> [jti |-> 0]]
NotJsonSeg == [seg |-> "payload", b64 |-> TRUE, json |-> "text", claims |-> [jti |-> 0]]
NullJsonSeg == [seg |-> "payload", b64 |-> TRUE, json |-> "null", claims |-> [jti |-> 0]]

Jwt(exp, jti) == << Header, PayloadSeg(exp, jti), Signature >>
Credential(exp, jti, r) == [access |-> Jwt(exp, jti), refresh |-> r]

\* What the server may answer to request q: a fresh access token (unique
\* jti) with any expiry, and any refresh token (rotated or not).
Responses(q) == { Credential(100, q, <<"r", "1">>), Credential(200, q, <<"r", "2">>) }

\* ------------------------------------------------------- local storage
NoItem == [t |-> "none"]
Garbage == [t |-> "text", raw |-> "not json"]
JSONstringify(obj) == [t |-> "json", of |-> obj]

\* JSON.parse: [ok, v]; throws (ok = FALSE) on text that is not JSON
JSONparse(s) ==
  IF s.t = "json" THEN [ok |-> TRUE, v |-> s.of] ELSE [ok |-> FALSE, v |-> [none |-> TRUE]]

\* storeInLocalStorage, and the same writing the access token alone
storeAccessOnly(payload) == JSONstringify([access |-> payload.access])
\* the same writing the access token and keeping a stored refresh token
storeAccessKeepRefresh(payload) ==
  IF JSONparse(storage).ok /\ "refresh" \in DOMAIN JSONparse(storage).v
  THEN JSONstringify([access |-> payload.access,
                      refresh |-> JSONparse(storage).v.refresh])
  ELSE JSONstringify(payload)
storeInLocalStorage(payload) == JSONstringify(payload)

\* removeFromLocalStorage, and the same with the item left in place
removeNothing == storage
removeFromLocalStorage == NoItem

\* retrieveFromLocalStorage without its catch: JSON.parse's exception
\* reaches the caller
retrieveUnguarded(st) ==
  IF st = NoItem THEN NullResult
  ELSE IF JSONparse(st).ok THEN [t |-> "obj", v |-> JSONparse(st).v]
  ELSE ErrorResult(0)

\* retrieveFromLocalStorage: the parsed record, or null when the item is
\* absent or unparsable
retrieveFromLocalStorage(st) ==
  IF st = NoItem THEN NullResult
  ELSE IF JSONparse(st).ok THEN [t |-> "obj", v |-> JSONparse(st).v]
  ELSE NullResult

InitialStorage ==
  { NoItem, Garbage,
    JSONstringify([access |-> Jwt(200, 0)]),
    JSONstringify([refresh |-> <<"r", "1">>]),
    JSONstringify([access |-> << Header >>, refresh |-> <<"r", "1">>]),
    JSONstringify([access |-> << Header, BadB64Seg, Signature >>, refresh |-> <<"r", "1">>]),
    JSONstringify([access |-> << Header, NotJsonSeg, Signature >>, refresh |-> <<"r", "1">>]),
    JSONstringify([access |-> << Header, NoExpSeg, Signature >>, refresh |-> <<"r", "1">>]),
    JSONstringify([access |-> << Header, PayloadSeg(200, 0) >>, refresh |-> <<"r", "1">>]),
    JSONstringify(Credential(100, 0, <<"r", "1">>)),
    JSONstringify(Credential(100, 0, <<"r", "2">>)),
    JSONstringify(Credential(200, 0, <<"r", "1">>)) }

\* ------------------------------------------------------------ parseJwt
\* token.split(".")[1] must exist, atob must accept it and JSON.parse must
\* accept the decoded text; otherwise parseJwt throws.
parseJwt(token) ==
  IF Len(token) < 2 THEN [ok |-> FALSE, claims |-> [none |-> TRUE]]
  ELSE IF ~token[2].b64 THEN [ok |-> FALSE, claims |-> [none |-> TRUE]]
  ELSE IF token[2].json = "text" THEN [ok |-> FALSE, claims |-> [none |-> TRUE]]
  ELSE [ok |-> TRUE, isNull |-> token[2].json = "null", claims |-> token[2].claims]

\* Math.floor(Date.now() / 1000), and the same left in milliseconds
currentTimeInMs(ms) == ms
currentTime(ms) == ms \div 1000

\* the same comparison made with > in place of >=
NeedsRefreshStrict(claims, ms) ==
  /\ "exp" \in DOMAIN claims
  /\ currentTime(ms) > claims.exp - ONE_MINUTE_IN_SECONDS

\* currentTime >= parsedToken.exp - ONE_MINUTE_IN_SECONDS; a payload
\* without exp gives NaN, and every comparison with NaN is false
NeedsRefresh(claims, ms) ==
  /\ "exp" \in DOMAIN claims
  /\ currentTime(ms) >= claims.exp - ONE_MINUTE_IN_SECONDS

\* ---------------------------------------------------------- cache keys
Quote(s) == <<"\"">> \o s \o <<"\"">>

\* JSON.stringify({email, password})
StringifyLogin(payload) ==
  <<"{", "\"email\"", ":">> \o Quote(payload.email) \o
  <<",", "\"password\"", ":">> \o Quote(payload.password) \o <<"}">>

\* JSON.stringify({refreshToken})
StringifyRefresh(refreshToken) ==
  <<"{", "\"refreshToken\"", ":">> \o Quote(refreshToken) \o <<"}">>

\* createCacheKey: `${method}:${JSON.stringify(params)}`
createCacheKey(method, json) == <<method, ":">> \o json

\* promise-field version: `${payload.email}:${payload.password}`
credentialsKeyOf(payload) == payload.email \o <<":">> \o payload.password

\* the endpoints of fetchPost, as sequences of their parts like every URI
UriLogin == <<"/login/">>
UriRefresh == <<"/refresh/">>

NoKey == << >>
NoPromise == 0
\* private static instance = null
NoInstance == 0

\* requestCache.delete(key), and the same with the deletion left out
MapDeleteKept(m, k) == m
MapDelete(m, k) == [x \in DOMAIN m \ {k} |-> m[x]]

\* requestCache.set(key, promise), and the same with the entry not stored
MapSetLost(m, k, v) == m
MapSet(m, k, v) == (k :> v) @@ m

\* ------------------------------------------------------------ requests
NewReq(path, body) ==
  [path |-> path, body |-> body, status |-> "pending", value |-> Pending,
   sets |-> 0, removes |-> 0]

\* the body of POST /refresh/: { refresh: refreshToken }, and the same with
\* the token left out
RefreshBodyEmpty(refreshToken) == [refresh |-> << >>]
RefreshBody(refreshToken) == [refresh |-> refreshToken]

NoPayload == [email |-> << >>, password |-> << >>]

\* A call: what was asked, where it is, the promise it waits for, its
\* locals, its result; settledBefore is the set of requests that had
\* already settled when the call was made.
NewCall(op, payload, pc, q, key, token, result) ==
  [op |-> op, payload |-> payload, pc |-> pc, req |-> q, key |-> key,
   token |-> token, result |-> result, settledBefore |-> {}]

\* The calls in progress and the settled calls still remembered, as a bag:
\* callers are anonymous, a call is known by what it asked and where it is.
Active == BagToSet(calls)

Put(c) == SetToBag({c})

\* a new call is made by a caller that is not inside a call: one that never
\* called, or one whose last call has settled (its result is then forgotten)
Start(c) ==
  \/ /\ BagCardinality(calls) < NumCallers
     /\ calls' = calls (+) Put(c)
  \/ /\ BagCardinality(calls) = NumCallers
     /\ \E d \in Active : d.pc = "done" /\ calls' = (calls (-) Put(d)) (+) Put(c)

\* a settled call keeps what it read from storage
Done(call, result) ==
  [call EXCEPT !.pc = "done", !.result = result, !.settledBefore = {}]

Move(c, d) == calls' = (calls (-) Put(c)) (+) Put(d)

Settled(q) == reqs[q].status # "pending"

Init ==
  /\ storage \in InitialStorage
  /\ requestCache = << >>
  /\ loginPromise = NoPromise
  /\ currentCredentialsKey = NoKey
  /\ refreshPromise = NoPromise
  /\ reqs = << >>
  /\ calls = EmptyBag
  /\ nowMs = 39999
  /\ getAllPromise = NoPromise
  /\ getByUserPromise = NoPromise
  /\ getByIdPromises = << >>
  /\ instance = NoInstance
  /\ userCaches = << >>

\* UserProfileApiService: the static instance field, and the requestCache
\* of every instance constructed so far
userVars == <<instance, userCaches>>

\* the fields of BrandProfileApiService
brandVars == <<getAllPromise, getByUserPromise, getByIdPromises>>

fieldVars == <<loginPromise, currentCredentialsKey, refreshPromise>>

\* ------------------------------------------------ login (Map version)
\* login(payload) up to `await requestPromise`, doLogin up to its await
Login(payload) ==
  /\ LET cacheKey == createCacheKey("login", StringifyLogin(payload)) IN
     IF cacheKey \in DOMAIN requestCache
     THEN /\ Start(NewCall("login", payload, "joined", requestCache[cacheKey],
                           cacheKey, NullResult, Pending))
          /\ UNCHANGED <<reqs, requestCache>>
     ELSE /\ Len(reqs) < MaxReqs
          /\ reqs' = Append(reqs, NewReq(UriLogin, payload))
          /\ requestCache' = MapSet(requestCache, cacheKey, Len(reqs) + 1)
          /\ Start(NewCall("login", payload, "owner", Len(reqs) + 1,
                           cacheKey, NullResult, Pending))
  /\ UNCHANGED <<storage, nowMs, fieldVars, brandVars, userVars>>

\* DoLoginSettle returning the response without storing it
DoLoginSettleUnstored(q) ==
  /\ q \in 1..Len(reqs)
  /\ reqs[q].path = UriLogin
  /\ reqs[q].status = "pending"
  /\ \/ \E response \in Responses(q) :
          reqs' = [reqs EXCEPT ![q].status = "fulfilled",
                               ![q].value = CredResult(response)]
     \/ reqs' = [reqs EXCEPT ![q].status = "rejected",
                             ![q].value = ErrorResult(q)]
  /\ UNCHANGED <<storage, requestCache, calls, nowMs, fieldVars, brandVars, userVars>>

\* DoLoginSettle that logs out when the transport rejects
DoLoginSettleLogsOut(q) ==
  /\ q \in 1..Len(reqs)
  /\ reqs[q].path = UriLogin
  /\ reqs[q].status = "pending"
  /\ \/ \E response \in Responses(q) :
          /\ storage' = storeInLocalStorage(response)
          /\ reqs' = [reqs EXCEPT ![q].status = "fulfilled",
                                  ![q].value = CredResult(response),
                                  ![q].sets = @ + 1]
     \/ /\ reqs' = [reqs EXCEPT ![q].status = "rejected",
                                ![q].value = ErrorResult(q)]
        /\ storage' = removeFromLocalStorage
  /\ UNCHANGED <<requestCache, calls, nowMs, fieldVars, brandVars, userVars>>

\* doLogin after `await this.fetchPost(...)`: store and return the
\* response, or let the transport error propagate
DoLoginSettle(q) ==
  /\ q \in 1..Len(reqs)
  /\ reqs[q].path = UriLogin
  /\ reqs[q].status = "pending"
  /\ \/ \E response \in Responses(q) :
          /\ storage' = storeInLocalStorage(response)
          /\ reqs' = [reqs EXCEPT ![q].status = "fulfilled",
                                  ![q].value = CredResult(response),
                                  ![q].sets = @ + 1]
     \/ /\ reqs' = [reqs EXCEPT ![q].status = "rejected",
                                ![q].value = ErrorResult(q)]
        /\ UNCHANGED storage
  /\ UNCHANGED <<requestCache, calls, nowMs, fieldVars, brandVars, userVars>>

\* LoginResume with the rejection swallowed: the caller gets null
LoginResumeSwallowed(c) ==
  /\ c \in Active
  /\ c.op = "login"
  /\ c.pc = "owner"
  /\ Settled(c.req)
  /\ requestCache' = MapDelete(requestCache, c.key)
  /\ Move(c, Done(c, IF reqs[c.req].status = "rejected" THEN NullResult
                     ELSE reqs[c.req].value))
  /\ UNCHANGED <<storage, reqs, nowMs, fieldVars, brandVars, userVars>>

\* login after `await requestPromise`: finally { requestCache.delete }
LoginResume(c) ==
  /\ c \in Active
  /\ c.op = "login"
  /\ c.pc = "owner"
  /\ Settled(c.req)
  /\ requestCache' = MapDelete(requestCache, c.key)
  /\ Move(c, Done(c, reqs[c.req].value))
  /\ UNCHANGED <<storage, reqs, nowMs, fieldVars, brandVars, userVars>>

\* JoinerResume when the joiner's reaction runs before the owner's
JoinerResumeFirst(c) ==
  /\ c \in Active
  /\ c.pc = "joined"
  /\ Settled(c.req)
  /\ Move(c, Done(c, reqs[c.req].value))
  /\ UNCHANGED <<storage, requestCache, reqs, nowMs, fieldVars, brandVars, userVars>>

\* JoinerResume that does not wait for the promise to settle
JoinerResumeEarly(c) ==
  /\ c \in Active
  /\ c.pc = "joined"
  /\ \A o \in Active : ~(o.pc = "owner" /\ o.req = c.req)
  /\ Move(c, Done(c, reqs[c.req].value))
  /\ UNCHANGED <<storage, requestCache, reqs, nowMs, fieldVars, brandVars, userVars>>

\* A call that returned a cached promise settles with that promise, after
\* the reaction the owner registered first.
JoinerResume(c) ==
  /\ c \in Active
  /\ c.pc = "joined"
  /\ Settled(c.req)
  /\ \A o \in Active : ~(o.pc = "owner" /\ o.req = c.req)
  /\ Move(c, Done(c, reqs[c.req].value))
  /\ UNCHANGED <<storage, requestCache, reqs, nowMs, fieldVars, brandVars, userVars>>

\* logout() that waits until no request is in flight
LogoutWhenIdle ==
  /\ \A q \in 1..Len(reqs) : Settled(q)
  /\ storage' = removeFromLocalStorage
  /\ UNCHANGED <<requestCache, reqs, calls, nowMs, fieldVars, brandVars, userVars>>

\* logout(): removeFromLocalStorage
Logout ==
  /\ storage' = removeFromLocalStorage
  /\ UNCHANGED <<requestCache, reqs, calls, nowMs, fieldVars, brandVars, userVars>>

\* getValidToken up to `await this.getCurrentToken()`: storage is read
GetValidToken ==
  /\ Start([NewCall("getValidToken", NoPayload, "read", 0, NoKey,
                    retrieveFromLocalStorage(storage), Pending)
             EXCEPT !.settledBefore = {q \in 1..Len(reqs) : Settled(q)}])
  /\ UNCHANGED <<storage, requestCache, reqs, nowMs, fieldVars, brandVars, userVars>>

\* the same with token.refresh not looked at
HasAccessToken(token) ==
  /\ token # NullResult
  /\ "access" \in DOMAIN token.v
  /\ token.v.access # << >>

\* !token || !token.access || !token.refresh is false
HasTokens(token) ==
  /\ token # NullResult
  /\ "access" \in DOMAIN token.v
  /\ token.v.access # << >>
  /\ "refresh" \in DOMAIN token.v
  /\ token.v.refresh # << >>

\* parseJwt succeeded and reading .exp of its result does not throw
Decodable(token) ==
  /\ parseJwt(token.v.access).ok
  /\ ~parseJwt(token.v.access).isNull

Joined(c, cacheKey, q) ==
  [c EXCEPT !.pc = "joined", !.key = cacheKey, !.req = q, !.token = NullResult]

\* getValidToken after `await this.getCurrentToken()` (Map version)
GetValidTokenResume(c) ==
  /\ c \in Active
  /\ c.op = "getValidToken"
  /\ c.pc = "read"
  /\ LET token == c.token IN
     IF ~HasTokens(token) \/ ~Decodable(token)
     THEN /\ storage' = removeFromLocalStorage
          /\ Move(c, Done(c, NullResult))
          /\ UNCHANGED <<reqs, requestCache>>
     ELSE IF NeedsRefresh(parseJwt(token.v.access).claims, nowMs)
     THEN LET cacheKey == createCacheKey("refresh", StringifyRefresh(token.v.refresh)) IN
          IF cacheKey \in DOMAIN requestCache
          THEN /\ Move(c, Joined(c, cacheKey, requestCache[cacheKey]))
               /\ UNCHANGED <<storage, reqs, requestCache>>
          ELSE /\ Len(reqs) < MaxReqs
               /\ reqs' = Append(reqs, NewReq(UriRefresh, RefreshBody(token.v.refresh)))
               /\ requestCache' = MapSet(requestCache, cacheKey, Len(reqs) + 1)
               /\ Move(c, Joined(c, cacheKey, Len(reqs) + 1))
               /\ UNCHANGED storage
     ELSE /\ Move(c, Done(c, CredResult(token.v)))
          /\ UNCHANGED <<storage, reqs, requestCache>>
  /\ UNCHANGED <<nowMs, fieldVars, brandVars, userVars>>

\* DoRefreshSettle without the catch: the transport error propagates
DoRefreshSettleThrows(q) ==
  /\ q \in 1..Len(reqs)
  /\ reqs[q].path = UriRefresh
  /\ reqs[q].status = "pending"
  /\ \/ \E response \in Responses(q) :
          /\ storage' = storeInLocalStorage(response)
          /\ reqs' = [reqs EXCEPT ![q].status = "fulfilled",
                                  ![q].value = CredResult(response),
                                  ![q].sets = @ + 1]
     \/ /\ reqs' = [reqs EXCEPT ![q].status = "rejected",
                                ![q].value = ErrorResult(q)]
        /\ UNCHANGED storage
  /\ UNCHANGED <<requestCache, calls, nowMs, fieldVars, brandVars, userVars>>

\* DoRefreshSettle that does not store after a logout
DoRefreshSettleIfLoggedIn(q) ==
  /\ q \in 1..Len(reqs)
  /\ reqs[q].path = UriRefresh
  /\ reqs[q].status = "pending"
  /\ \/ \E response \in Responses(q) :
          /\ storage' = IF storage = NoItem THEN NoItem
                        ELSE storeInLocalStorage(response)
          /\ reqs' = [reqs EXCEPT ![q].status = "fulfilled",
                                  ![q].value = CredResult(response),
                                  ![q].sets = @ + 1]
     \/ /\ storage' = removeFromLocalStorage
        /\ reqs' = [reqs EXCEPT ![q].status = "failed",
                                ![q].value = NullResult,
                                ![q].removes = @ + 1]
  /\ UNCHANGED <<requestCache, calls, nowMs, fieldVars, brandVars, userVars>>

\* doRefresh after `await this.fetchPost(...)`: store and return the
\* response; on failure logout and return null
DoRefreshSettle(q) ==
  /\ q \in 1..Len(reqs)
  /\ reqs[q].path = UriRefresh
  /\ reqs[q].status = "pending"
  /\ \/ \E response \in Responses(q) :
          /\ storage' = storeInLocalStorage(response)
          /\ reqs' = [reqs EXCEPT ![q].status = "fulfilled",
                                  ![q].value = CredResult(response),
                                  ![q].sets = @ + 1]
     \/ /\ storage' = removeFromLocalStorage
        /\ reqs' = [reqs EXCEPT ![q].status = "failed",
                                ![q].value = NullResult,
                                ![q].removes = @ + 1]
  /\ UNCHANGED <<requestCache, calls, nowMs, fieldVars, brandVars, userVars>>

\* Date.now() advances
Tick ==
  /\ \E t \in NowValues : t > nowMs /\ nowMs' = t
  /\ UNCHANGED <<storage, requestCache, reqs, calls, fieldVars, brandVars, userVars>>

Next ==
  \/ \E payload \in Payloads : Login(payload)
  \/ \E q \in 1..MaxReqs : DoLoginSettle(q)
  \/ \E c \in Active : LoginResume(c)
  \/ \E c \in Active : JoinerResume(c)
  \/ Logout
  \/ GetValidToken
  \/ \E c \in Active : GetValidTokenResume(c)
  \/ \E q \in 1..MaxReqs : DoRefreshSettle(q)
  \/ Tick

\* --------------------------------------- promise-field version of login
\* login(payload) up to `await this.loginPromise`
LoginFieldUpTo(payload, limit) ==
  /\ LET credentialsKey == credentialsKeyOf(payload) IN
     IF loginPromise # NoPromise /\ currentCredentialsKey = credentialsKey
     THEN /\ Start(NewCall("login", payload, "joined", loginPromise,
                           credentialsKey, NullResult, Pending))
          /\ UNCHANGED <<reqs, loginPromise, currentCredentialsKey>>
     ELSE /\ Len(reqs) < limit
          /\ reqs' = Append(reqs, NewReq(UriLogin, payload))
          /\ currentCredentialsKey' = credentialsKey
          /\ loginPromise' = Len(reqs) + 1
          /\ Start(NewCall("login", payload, "owner", Len(reqs) + 1,
                           credentialsKey, NullResult, Pending))
  /\ UNCHANGED <<storage, nowMs, requestCache, refreshPromise, brandVars, userVars>>

LoginField(payload) == LoginFieldUpTo(payload, MaxReqs)

\* login after `await this.loginPromise`: finally { loginPromise = null;
\* currentCredentialsKey = null }
LoginFieldResume(c) ==
  /\ c \in Active
  /\ c.op = "login"
  /\ c.pc = "owner"
  /\ Settled(c.req)
  /\ loginPromise' = NoPromise
  /\ currentCredentialsKey' = NoKey
  /\ Move(c, Done(c, reqs[c.req].value))
  /\ UNCHANGED <<storage, reqs, nowMs, requestCache, refreshPromise, brandVars, userVars>>

Owner(c, q) == [c EXCEPT !.pc = "owner", !.req = q, !.token = NullResult]

\* getValidToken after `await this.getCurrentToken()` (promise-field version)
GetValidTokenFieldResume(c) ==
  /\ c \in Active
  /\ c.op = "getValidToken"
  /\ c.pc = "read"
  /\ LET token == c.token IN
     IF ~HasTokens(token) \/ ~Decodable(token)
     THEN /\ storage' = removeFromLocalStorage
          /\ Move(c, Done(c, NullResult))
          /\ UNCHANGED <<reqs, refreshPromise>>
     ELSE IF NeedsRefresh(parseJwt(token.v.access).claims, nowMs)
     THEN IF refreshPromise # NoPromise
          THEN /\ Move(c, Joined(c, NoKey, refreshPromise))
               /\ UNCHANGED <<storage, reqs, refreshPromise>>
          ELSE /\ Len(reqs) < MaxReqs
               /\ reqs' = Append(reqs, NewReq(UriRefresh, RefreshBody(token.v.refresh)))
               /\ refreshPromise' = Len(reqs) + 1
               /\ Move(c, Owner(c, Len(reqs) + 1))
               /\ UNCHANGED storage
     ELSE /\ Move(c, Done(c, CredResult(token.v)))
          /\ UNCHANGED <<storage, reqs, refreshPromise>>
  /\ UNCHANGED <<nowMs, requestCache, loginPromise, currentCredentialsKey, brandVars, userVars>>

\* getValidToken after `await this.refreshPromise`: finally
\* { refreshPromise = null }
RefreshFieldResume(c) ==
  /\ c \in Active
  /\ c.op = "getValidToken"
  /\ c.pc = "owner"
  /\ Settled(c.req)
  /\ refreshPromise' = NoPromise
  /\ Move(c, Done(c, reqs[c.req].value))
  /\ UNCHANGED <<storage, reqs, nowMs, requestCache, loginPromise, currentCredentialsKey, brandVars, userVars>>

NextField ==
  \/ \E payload \in MorePayloads : LoginField(payload)
  \/ \E q \in 1..MaxReqs : DoLoginSettle(q)
  \/ \E c \in Active : LoginFieldResume(c)
  \/ \E c \in Active : JoinerResume(c)
  \/ Logout
  \/ GetValidToken
  \/ \E c \in Active : GetValidTokenFieldResume(c)
  \/ \E c \in Active : RefreshFieldResume(c)
  \/ \E q \in 1..MaxReqs : DoRefreshSettle(q)
  \/ Tick

SpecField == Init /\ [][NextField]_vars

\* The promise-field version when the application only logs in and out.
NextFieldLogin ==
  \/ \E payload \in MorePayloads : LoginFieldUpTo(payload, MaxLoginReqs)
  \/ \E q \in 1..MaxLoginReqs : DoLoginSettle(q)
  \/ \E c \in Active : LoginFieldResume(c)
  \/ \E c \in Active : JoinerResume(c)
  \/ Logout

SpecFieldLogin == Init /\ [][NextFieldLogin]_vars

\* getCurrentToken(): the promise it returns is fulfilled with what
\* retrieveFromLocalStorage returns
GetCurrentToken ==
  /\ Start(NewCall("getCurrentToken", NoPayload, "done", 0, NoKey,
                   NullResult, retrieveFromLocalStorage(storage)))
  /\ UNCHANGED <<storage, requestCache, reqs, nowMs, fieldVars, brandVars, userVars>>

\* getCurrentToken() called while logins and logouts go on
NextToken ==
  \/ \E payload \in Payloads : Login(payload)
  \/ \E q \in 1..MaxReqs : DoLoginSettle(q)
  \/ \E c \in Active : LoginResume(c)
  \/ \E c \in Active : JoinerResume(c)
  \/ Logout
  \/ GetCurrentToken

SpecToken == Init /\ [][NextToken]_vars

Spec == Init /\ [][Next]_vars

\* ------------------------------------------- BrandProfileApiService
\* An optional string argument: undefined, or a string (possibly empty).
Undefined == [t |-> "undefined"]
Str(s) == [t |-> "str", s |-> s]
Num(s) == [t |-> "num", s |-> s]
Queries == { Undefined, Str(<<"x">>), Str(<<"y">>) }
BrandIds == { Num(<<"1">>), Str(<<"1">>), Str(<<"2">>) }

\* JSON.stringify(brandId): a string keeps its quotes
StringQuoted(v) == IF v.t = "str" THEN <<"\"">> \o v.s \o <<"\"">> ELSE v.s

\* String(brandId), `${brandId}`
String(v) == v.s

\* doGetAll: const uri = "/brands/"
UriAll(query) == <<"/brands/">>

\* doGetByUser: query ? `/brands/?query=${query}` : "/brands/"
UriByUser(query) ==
  IF query.t = "str" /\ query.s # << >>
  THEN <<"/brands/", "?query=">> \o query.s
  ELSE <<"/brands/">>

\* doGetById: `/brands/${brandId}/`
UriById(brandId) == <<"/brands/">> \o String(brandId) \o <<"/">>

\* what the server returns for GET uri
DataResult(uri) == [t |-> "data", of |-> uri]

loginVars == <<storage, requestCache, nowMs, fieldVars>>

\* getAll(query) up to `await this.getAllPromise`
GetAll(query) ==
  /\ IF getAllPromise # NoPromise
     THEN /\ Start(NewCall("getAll", query, "joined", getAllPromise, NoKey,
                           NullResult, Pending))
          /\ UNCHANGED <<reqs, getAllPromise>>
     ELSE /\ Len(reqs) < MaxGets
          /\ reqs' = Append(reqs, NewReq(UriAll(query), query))
          /\ getAllPromise' = Len(reqs) + 1
          /\ Start(NewCall("getAll", query, "owner", Len(reqs) + 1, NoKey,
                           NullResult, Pending))
  /\ UNCHANGED <<loginVars, getByUserPromise, getByIdPromises, userVars>>

\* GetAllResume without the finally block
GetAllResumeKeeps(c) ==
  /\ c \in Active
  /\ c.op = "getAll"
  /\ c.pc = "owner"
  /\ Settled(c.req)
  /\ Move(c, Done(c, reqs[c.req].value))
  /\ UNCHANGED <<loginVars, reqs, brandVars, userVars>>

\* getAll after `await this.getAllPromise`: finally { getAllPromise = null }
GetAllResume(c) ==
  /\ c \in Active
  /\ c.op = "getAll"
  /\ c.pc = "owner"
  /\ Settled(c.req)
  /\ getAllPromise' = NoPromise
  /\ Move(c, Done(c, reqs[c.req].value))
  /\ UNCHANGED <<loginVars, reqs, getByUserPromise, getByIdPromises, userVars>>

\* getByUser(query) up to `await this.getByUserPromise`
GetByUser(query) ==
  /\ IF getByUserPromise # NoPromise
     THEN /\ Start(NewCall("getByUser", query, "joined", getByUserPromise, NoKey,
                           NullResult, Pending))
          /\ UNCHANGED <<reqs, getByUserPromise>>
     ELSE /\ Len(reqs) < MaxGets
          /\ reqs' = Append(reqs, NewReq(UriByUser(query), query))
          /\ getByUserPromise' = Len(reqs) + 1
          /\ Start(NewCall("getByUser", query, "owner", Len(reqs) + 1, NoKey,
                           NullResult, Pending))
  /\ UNCHANGED <<loginVars, getAllPromise, getByIdPromises, userVars>>

\* getByUser after `await this.getByUserPromise`: finally
\* { getByUserPromise = null }
GetByUserResume(c) ==
  /\ c \in Active
  /\ c.op = "getByUser"
  /\ c.pc = "owner"
  /\ Settled(c.req)
  /\ getByUserPromise' = NoPromise
  /\ Move(c, Done(c, reqs[c.req].value))
  /\ UNCHANGED <<loginVars, reqs, getAllPromise, getByIdPromises, userVars>>

\* getById(brandId) up to `await promise`
GetById(brandId) ==
  /\ LET key == String(brandId) IN
     IF key \in DOMAIN getByIdPromises
     THEN /\ Start(NewCall("getById", brandId, "joined", getByIdPromises[key],
                           key, NullResult, Pending))
          /\ UNCHANGED <<reqs, getByIdPromises>>
     ELSE /\ Len(reqs) < MaxGets
          /\ reqs' = Append(reqs, NewReq(UriById(brandId), brandId))
          /\ getByIdPromises' = MapSet(getByIdPromises, key, Len(reqs) + 1)
          /\ Start(NewCall("getById", brandId, "owner", Len(reqs) + 1,
                           key, NullResult, Pending))
  /\ UNCHANGED <<loginVars, getAllPromise, getByUserPromise, userVars>>

\* getById after `await promise`: finally { getByIdPromises.delete(key) }
GetByIdResume(c) ==
  /\ c \in Active
  /\ c.op = "getById"
  /\ c.pc = "owner"
  /\ Settled(c.req)
  /\ getByIdPromises' = MapDelete(getByIdPromises, c.key)
  /\ Move(c, Done(c, reqs[c.req].value))
  /\ UNCHANGED <<loginVars, reqs, getAllPromise, getByUserPromise, userVars>>

\* doGetAll / doGetByUser / doGetById after `await this.get(uri)`
GetSettle(q) ==
  /\ q \in 1..Len(reqs)
  /\ reqs[q].status = "pending"
  /\ \/ reqs' = [reqs EXCEPT ![q].status = "fulfilled",
                             ![q].value = DataResult(reqs[q].path)]
     \/ reqs' = [reqs EXCEPT ![q].status = "rejected",
                             ![q].value = ErrorResult(q)]
  /\ UNCHANGED <<loginVars, calls, brandVars, userVars>>

NextBrand ==
  \/ \E query \in Queries : GetAll(query)
  \/ \E c \in Active : GetAllResume(c)
  \/ \E query \in Queries : GetByUser(query)
  \/ \E c \in Active : GetByUserResume(c)
  \/ \E brandId \in BrandIds : GetById(brandId)
  \/ \E c \in Active : GetByIdResume(c)
  \/ \E c \in Active : JoinerResume(c)
  \/ \E q \in 1..MaxGets : GetSettle(q)

\* the brand profile service does not touch the login data
InitBrand == Init /\ storage = NoItem

SpecBrand == InitBrand /\ [][NextBrand]_vars

\* -------------------------------------------- UserProfileApiService
\* a reference to the instance constructed i-th
Inst(i) == [t |-> "inst", i |-> i]
RefResult(i) == [t |-> "ref", i |-> i]

\* const cacheKey = "getMyUser"
getMyUserKey == <<"getMyUser">>

\* const uri = "/users/me/"
UriMe == <<"/users/me/">>

\* the requestCache of every instance being one shared (static) Map
CacheOfShared(i) == userCaches[1]

\* this.requestCache of instance i
CacheOf(i) == userCaches[i]

\* a Map.has that forgets an entry once its request has settled
HasWhilePending(m, k) == k \in DOMAIN m /\ ~Settled(m[k])

\* Map.has
Has(m, k) == k \in DOMAIN m

\* the body of a PATCH
Bodies == { [name |-> "n"] }

\* new UserProfileApiService()
NewInstance ==
  /\ Len(userCaches) < MaxInstances
  /\ userCaches' = Append(userCaches, << >>)
  /\ UNCHANGED <<loginVars, brandVars, instance, reqs, calls>>

\* getInstance() that constructs a new object on every call
GetInstanceAlwaysNew ==
  /\ Len(userCaches) < MaxInstances
  /\ userCaches' = Append(userCaches, << >>)
  /\ instance' = Len(userCaches) + 1
  /\ Start(NewCall("getInstance", Inst(0), "done", 0, NoKey, NullResult,
                   RefResult(instance')))
  /\ UNCHANGED <<loginVars, brandVars, reqs>>

\* static getInstance(): the caller gets a reference
GetInstance ==
  /\ IF instance = NoInstance
     THEN /\ Len(userCaches) < MaxInstances
          /\ userCaches' = Append(userCaches, << >>)
          /\ instance' = Len(userCaches) + 1
     ELSE UNCHANGED <<instance, userCaches>>
  /\ Start(NewCall("getInstance", Inst(0), "done", 0, NoKey, NullResult,
                   RefResult(instance')))
  /\ UNCHANGED <<loginVars, brandVars, reqs>>

\* static resetInstance()
ResetInstance ==
  /\ instance' = NoInstance
  /\ UNCHANGED <<loginVars, brandVars, userCaches, reqs, calls>>

\* getMyUser() that never puts its promise in the cache
GetMyUserUncached(i) ==
  /\ i \in 1..Len(userCaches)
  /\ Len(reqs) < MaxGets
  /\ reqs' = Append(reqs, NewReq(UriMe, Inst(i)))
  /\ Start(NewCall("getMyUser", Inst(i), "joined", Len(reqs) + 1,
                   getMyUserKey, NullResult, Pending))
  /\ UNCHANGED <<loginVars, brandVars, userVars>>

\* getMyUser() on instance i: every caller returns the cached promise
GetMyUser(i) ==
  /\ i \in 1..Len(userCaches)
  /\ LET cacheKey == getMyUserKey
         call(q) == [NewCall("getMyUser", Inst(i), "joined", q, cacheKey,
                             NullResult, Pending)
                     EXCEPT !.settledBefore = {x \in 1..Len(reqs) : Settled(x)}]
     IN
     IF Has(CacheOf(i), cacheKey)
     THEN /\ Start(call(CacheOf(i)[cacheKey]))
          /\ UNCHANGED <<reqs, userCaches>>
     ELSE /\ Len(reqs) < MaxGets
          /\ reqs' = Append(reqs, NewReq(UriMe, Inst(i)))
          /\ userCaches' = [userCaches EXCEPT
                              ![i] = MapSet(@, cacheKey, Len(reqs) + 1)]
          /\ Start(call(Len(reqs) + 1))
  /\ UNCHANGED <<loginVars, brandVars, instance>>

\* updateMyUser(body) on instance i: return this.patch(uri, body)
UpdateMyUser(i, body) ==
  /\ i \in 1..Len(userCaches)
  /\ Len(reqs) < MaxPatches
  /\ reqs' = Append(reqs, NewReq(<<"PATCH">> \o UriMe, body))
  /\ Start(NewCall("updateMyUser", Inst(i), "joined", Len(reqs) + 1, NoKey,
                   NullResult, Pending))
  /\ UNCHANGED <<loginVars, brandVars, userVars>>

\* update(brandId, body) that joins an identical PATCH in flight
UpdateDeduplicated(brandId, body) ==
  LET path == <<"PATCH">> \o UriById(brandId)
      same == {q \in 1..Len(reqs) :
                 reqs[q].status = "pending" /\ reqs[q].path = path}
  IN
  /\ IF same # {}
     THEN /\ \E q \in same :
               Start(NewCall("update", brandId, "joined", q, NoKey,
                             NullResult, Pending))
          /\ UNCHANGED reqs
     ELSE /\ Len(reqs) < MaxPatches
          /\ reqs' = Append(reqs, NewReq(path, body))
          /\ Start(NewCall("update", brandId, "joined", Len(reqs) + 1, NoKey,
                           NullResult, Pending))
  /\ UNCHANGED <<loginVars, brandVars, userVars>>

\* BrandProfileApiService.update(brandId, body): return this.patch(uri, body)
Update(brandId, body) ==
  /\ Len(reqs) < MaxPatches
  /\ reqs' = Append(reqs, NewReq(<<"PATCH">> \o UriById(brandId), body))
  /\ Start(NewCall("update", brandId, "joined", Len(reqs) + 1, NoKey,
                   NullResult, Pending))
  /\ UNCHANGED <<loginVars, brandVars, userVars>>

NextUser ==
  \/ NewInstance
  \/ GetInstance
  \/ ResetInstance
  \/ \E i \in 1..MaxInstances : GetMyUser(i)
  \/ \E i \in 1..MaxInstances, body \in Bodies : UpdateMyUser(i, body)
  \/ \E c \in Active : JoinerResume(c)
  \/ \E q \in 1..MaxPatches : GetSettle(q)

InitUser == Init /\ storage = NoItem

SpecUser == InitUser /\ [][NextUser]_vars

\* The reads and the writes of the two profile services together.
NextWrites ==
  \/ GetInstance
  \/ \E i \in 1..MaxInstances : GetMyUser(i)
  \/ \E i \in 1..MaxInstances, body \in Bodies : UpdateMyUser(i, body)
  \/ \E brandId \in BrandIds : GetById(brandId)
  \/ \E c \in Active : GetByIdResume(c)
  \/ \E brandId \in BrandIds, body \in Bodies : Update(brandId, body)
  \/ \E c \in Active : JoinerResume(c)
  \/ \E q \in 1..MaxPatches : GetSettle(q)

SpecWrites == InitUser /\ [][NextWrites]_vars

\* ------------------------------ UsersApiService, useGetUsersPaginated
\* Users as the server sends them, and the responses of GET /users.
ServerUsers ==
  { [id |-> 11, firstName |-> "Terry", lastName |-> "Medhurst", email |-> "t@x"],
    [id |-> 12, firstName |-> "Sheldon", lastName |-> "Quigley", email |-> "s@x"] }
UserLists ==
  { us \in UNION { [1..n -> ServerUsers] : n \in 0..MaxUsers } :
      \A i, j \in DOMAIN us : i # j => us[i] # us[j] }
Totals == { 0, 5, 27, 100 }
UsersResponses ==
  { [users |-> us, total |-> t, skip |-> 0, limit |-> 30] :
      us \in UserLists, t \in Totals }
UsersResult(response) == [t |-> "users", v |-> response]
\* fetch rejected (0), or response.ok false with this status
FetchFailures == { 0, 500 }

\* params of getAll: absent, or an object with some of limit / skip
UsersParams ==
  { Undefined, [skip |-> 3], [limit |-> 13], [limit |-> 2, skip |-> 2] }

\* params?.f is truthy
Truthy(params, f) ==
  /\ "t" \notin DOMAIN params
  /\ f \in DOMAIN params
  /\ params[f] # 0

\* searchParams.toString() and the endpoint
SearchParams(params) ==
  LET limit == IF Truthy(params, "limit")
               THEN << <<"limit=", ToString(params.limit)>> >> ELSE << >>
      skip == IF Truthy(params, "skip")
              THEN << <<"skip=", ToString(params.skip)>> >> ELSE << >>
      all == limit \o skip
  IN  IF Len(all) = 0 THEN << >>
      ELSE IF Len(all) = 1 THEN all[1]
      ELSE all[1] \o <<"&">> \o all[2]
Endpoint(params) ==
  IF SearchParams(params) # << >> THEN <<"/users?">> \o SearchParams(params)
  ELSE <<"/users">>

\* params?.skip || 0
SkipOrZero(params) == IF Truthy(params, "skip") THEN params.skip ELSE 0

\* insertMockUser numbering the users from the response's own skip
insertMockUserFromResponse(response, skip) ==
  [response EXCEPT !.users =
     [index \in DOMAIN response.users |->
        LET user == response.users[index]
            actualUserId == response.skip + (index - 1) + 1
        IN  IF actualUserId = targetUserId
            THEN [user EXCEPT !.id = targetUserId,
                              !.firstName = "Miles", !.lastName = "Cummerata"]
            ELSE [user EXCEPT !.id = actualUserId]]]

\* insertMockUser(response, skip); index is 0-based in the code
insertMockUser(response, skip) ==
  [response EXCEPT !.users =
     [index \in DOMAIN response.users |->
        LET user == response.users[index]
            actualUserId == skip + (index - 1) + 1
        IN  IF actualUserId = targetUserId
            THEN [user EXCEPT !.id = targetUserId,
                              !.firstName = "Miles", !.lastName = "Cummerata"]
            ELSE [user EXCEPT !.id = actualUserId]]]

\* getAll(params) up to `await this.fetchGet(endpoint)`
UsersGetAll(params) ==
  /\ Len(reqs) < MaxGets
  /\ reqs' = Append(reqs, NewReq(Endpoint(params), params))
  /\ Start(NewCall("users.getAll", params, "owner", Len(reqs) + 1, NoKey,
                   NullResult, Pending))
  /\ UNCHANGED <<loginVars, brandVars, userVars>>

\* fetchGet: fetch settles; a response that is not ok throws
FetchGetSettle(q) ==
  /\ q \in 1..Len(reqs)
  /\ reqs[q].status = "pending"
  /\ \/ \E response \in UsersResponses :
          reqs' = [reqs EXCEPT ![q].status = "fulfilled",
                               ![q].value = UsersResult(response)]
     \/ \E status \in FetchFailures :
          reqs' = [reqs EXCEPT ![q].status = "rejected",
                               ![q].value = ErrorResult(status)]
  /\ UNCHANGED <<loginVars, calls, brandVars, userVars>>

\* what getAll's promise settles with
GetAllOutcome(q, params) ==
  IF reqs[q].status = "fulfilled"
  THEN UsersResult(insertMockUser(reqs[q].value.v, SkipOrZero(params)))
  ELSE reqs[q].value

\* getAll after `await this.fetchGet(endpoint)`
UsersGetAllResume(c) ==
  /\ c \in Active
  /\ c.op = "users.getAll"
  /\ c.pc = "owner"
  /\ Settled(c.req)
  /\ Move(c, Done(c, GetAllOutcome(c.req, c.payload)))
  /\ UNCHANGED <<loginVars, reqs, brandVars, userVars>>

\* Math.ceil(a / b) with the quotient rounded down instead
MathFloorDiv(a, b) == a \div b

\* Math.ceil(a / b) for a >= 0, b > 0
MathCeilDiv(a, b) == IF a % b = 0 THEN a \div b ELSE (a \div b) + 1

\* the arguments of the hook: page, and pageSize or nothing
Pages == 1..MaxPage
PageSizes == { Undefined, Num(2) }
PageSizeOf(arg) == IF arg = Undefined THEN defaultPageSize ELSE arg.s
HookArgs(page, arg) == [page |-> page, pageSize |-> arg]
NoData == [t |-> "undefined"]

\* what one render of the hook returns
HookRender(data, page, pageSize) ==
  LET totalPages == IF data # NoData THEN MathCeilDiv(data.v.total, pageSize) ELSE 0
  IN  [t |-> "hook", data |-> data, totalPages |-> totalPages,
       hasNextPage |-> page < totalPages, hasPreviousPage |-> page > 1]

\* the hook is mounted: the query runs queryFn, and the first render has
\* no data
UseGetUsersPaginated(page, arg) ==
  LET pageSize == PageSizeOf(arg)
      skip == (page - 1) * pageSize
      params == [limit |-> pageSize, skip |-> skip]
  IN
  /\ Len(reqs) < MaxGets
  /\ reqs' = Append(reqs, NewReq(Endpoint(params), params))
  /\ Start(NewCall("useGetUsersPaginated", HookArgs(page, arg), "owner",
                   Len(reqs) + 1, NoKey, NullResult,
                   HookRender(NoData, page, pageSize)))
  /\ UNCHANGED <<loginVars, brandVars, userVars>>

\* the query has settled: the hook renders with its data, or without
UseGetUsersPaginatedResume(c) ==
  /\ c \in Active
  /\ c.op = "useGetUsersPaginated"
  /\ c.pc = "owner"
  /\ Settled(c.req)
  /\ LET outcome == GetAllOutcome(c.req, reqs[c.req].body)
         data == IF outcome.t = "users" THEN outcome ELSE NoData
     IN  Move(c, Done(c, HookRender(data, c.payload.page,
                                    PageSizeOf(c.payload.pageSize))))
  /\ UNCHANGED <<loginVars, reqs, brandVars, userVars>>

NextUsers ==
  \/ \E params \in UsersParams : UsersGetAll(params)
  \/ \E q \in 1..MaxGets : FetchGetSettle(q)
  \/ \E c \in Active : UsersGetAllResume(c)
  \/ \E page \in Pages, arg \in PageSizes : UseGetUsersPaginated(page, arg)
  \/ \E c \in Active : UseGetUsersPaginatedResume(c)

SpecUsers == InitUser /\ [][NextUsers]_vars

\* ------------------------- the callers of the login and user services
\* a request sent by doGetMyUser
IsMeReq(q) == q \in 1..Len(reqs) /\ reqs[q].path = UriMe

\* a caller that has not called yet
Arrive == BagCardinality(calls) < NumCallers

\* Every caller makes one call: login, getValidToken or getMyUser.
NextStall ==
  \/ \E payload \in Payloads : Arrive /\ Login(payload)
  \/ Arrive /\ GetValidToken
  \/ NewInstance
  \/ \E i \in 1..MaxInstances : Arrive /\ GetMyUser(i)
  \/ \E q \in 1..MaxReqs : DoLoginSettle(q)
  \/ \E q \in 1..MaxReqs : DoRefreshSettle(q)
  \/ \E q \in 1..MaxReqs : IsMeReq(q) /\ GetSettle(q)
  \/ \E c \in Active : LoginResume(c)
  \/ \E c \in Active : JoinerResume(c)
  \/ \E c \in Active : GetValidTokenResume(c)
  \/ Tick

InitStall ==
  Init /\ storage \in {NoItem, JSONstringify(Credential(100, 0, <<"r", "1">>))}

\* The continuation of a call that awaits a settled promise runs: the job
\* queue is drained.  Nothing makes the transport answer.
FairStall ==
  /\ WF_vars(\E c \in Active : LoginResume(c))
  /\ WF_vars(\E c \in Active : JoinerResume(c))

SpecStall == InitStall /\ [][NextStall]_vars /\ FairStall

TypeOK ==
  /\ BagCardinality(calls) <= NumCallers
  /\ \A q \in 1..Len(reqs) : reqs[q].status \in {"pending", "fulfilled", "rejected", "failed"}

\* ------------------------------------------------------------ the claims
Requests == 1..Len(reqs)
InFlight(q) == q \in Requests /\ reqs[q].status = "pending"

\* in a step: a call record that appears, a call record that goes away
Arrived(c) == CopiesIn(c, calls') > CopiesIn(c, calls)
Left(c) == CopiesIn(c, calls') < CopiesIn(c, calls)
Waiting(c) == c.pc \in {"owner", "joined"}

\* a stored token that getValidToken reads as about to expire / as valid
NearExpiry(token, ms) ==
  HasTokens(token) /\ Decodable(token) /\ NeedsRefresh(parseJwt(token.v.access).claims, ms)

\* C1: login calls with identical credentials that arrive while the request
\* is in flight send no second POST /login/: each joins the request in
\* flight, which carries their body, stores its response exactly once, and
\* every caller gets what that request returned.
C1_Attached ==
  \A c \in Active : c.op = "login" =>
    /\ reqs[c.req].path = UriLogin
    /\ reqs[c.req].body = c.payload
    /\ reqs[c.req].sets = (IF reqs[c.req].status = "fulfilled" THEN 1 ELSE 0)
    /\ c.pc = "done" => c.result = reqs[c.req].value
C1_Joins ==
  \A c \in BagToSet(calls') :
    (c.op = "login" /\ Waiting(c) /\ Arrived(c)) =>
      \A q \in Requests :
        (InFlight(q) /\ reqs[q].path = UriLogin /\ reqs[q].body = c.payload)
          => (reqs' = reqs /\ c.req = q)
C1_LoginCollapse == []C1_Attached /\ [][C1_Joins]_vars

C1_Witness ==
  \E c \in Active :
    /\ c.op = "login" /\ c.pc = "done" /\ c.result.t = "cred"
    /\ CopiesIn(c, calls) = NumCallers
    /\ reqs[c.req].sets = 1
    /\ Len(reqs) = 1

\* C2: a getValidToken call that reads a near-expiry credential while a
\* refresh for its refresh token is in flight sends no second POST /refresh/
\* and joins it; a refresh that a call starts carries the refresh token the
\* call read; every call gets what the refresh it joined returned.
C2_Attached ==
  \A c \in Active : (c.op = "getValidToken" /\ c.req # 0) =>
    /\ reqs[c.req].path = UriRefresh
    /\ c.pc = "done" => c.result = reqs[c.req].value
C2_Joins ==
  \A c \in Active :
    (c.op = "getValidToken" /\ c.pc = "read" /\ Left(c) /\ NearExpiry(c.token, nowMs)) =>
      /\ \A q \in Requests :
           (InFlight(q) /\ reqs[q].path = UriRefresh
              /\ reqs[q].body.refresh = c.token.v.refresh)
             => /\ reqs' = reqs
                /\ \E d \in BagToSet(calls') :
                     d.op = "getValidToken" /\ Waiting(d) /\ Arrived(d) /\ d.req = q
      /\ reqs' # reqs =>
           reqs' = Append(reqs, NewReq(UriRefresh, [refresh |-> c.token.v.refresh]))
C2_RefreshCollapse == []C2_Attached /\ [][C2_Joins]_vars

C2_Witness ==
  \E c \in Active :
    /\ c.op = "getValidToken" /\ c.pc = "done" /\ c.result.t = "cred"
    /\ CopiesIn(c, calls) = NumCallers
    /\ c.req # 0 /\ reqs[c.req].status = "fulfilled"
    /\ Len(reqs) = 1

\* C3: at most one transport request is in flight per cache key (path and
\* body).
C3_OneInFlightPerKey ==
  \A q1, q2 \in Requests :
    (q1 < q2 /\ InFlight(q1) /\ InFlight(q2) /\ reqs[q1].path = reqs[q2].path)
      => reqs[q1].body # reqs[q2].body

\* C4: a login call is only ever attached to a POST /login/ that carries
\* its own credentials, and receives that request's tokens.
C4_OwnRequest ==
  \A c \in Active : c.op = "login" =>
    /\ reqs[c.req].body.email = c.payload.email
    /\ reqs[c.req].body.password = c.payload.password

\* C5: a getValidToken call made after a refresh has settled is never
\* attached to that settled refresh: when it needs a refresh it sends a
\* new POST /refresh/.
C5_FreshRefresh ==
  \A c \in Active :
    (c.op = "getValidToken" /\ Waiting(c)) => c.req \notin c.settledBefore

\* C6: when POST /login/ rejects, every caller attached to it is rejected
\* with that request's error, nothing was stored, and neither the rejection
\* nor its delivery sends another request.
C6_Rejected ==
  \A c \in Active :
    (c.op = "login" /\ c.pc = "done" /\ reqs[c.req].status = "rejected") =>
      /\ c.result = ErrorResult(c.req)
      /\ reqs[c.req].sets = 0
C6_NoRetry ==
  (\/ \E q \in Requests : InFlight(q) /\ reqs'[q].status = "rejected"
   \/ \E d \in BagToSet(calls') : Arrived(d) /\ d.pc = "done" /\ d.result.t = "error")
    => Len(reqs') = Len(reqs)
C6_LoginRejection == []C6_Rejected /\ [][C6_NoRetry]_vars

C6_Witness ==
  \E c \in Active :
    /\ c.op = "login" /\ c.pc = "done" /\ c.result.t = "error"
    /\ CopiesIn(c, calls) = NumCallers
    /\ Len(reqs) = 1

\* C7: once a caller has seen a login settle (rejected, or fulfilled and
\* then logged out), no later login call is attached to that settled
\* request: it is attached to a request in flight, which it sends if there
\* is none for its credentials, and it is fulfilled when that one succeeds.
C7_NotStale ==
  \A d \in BagToSet(calls') :
    (d.op = "login" /\ Waiting(d) /\ Arrived(d)) =>
      \/ reqs'[d.req].status = "pending"
      \/ \E o \in Active : o.pc = "owner" /\ o.req = d.req
C7_Fulfilled ==
  \A c \in Active :
    (c.op = "login" /\ c.pc = "done" /\ reqs[c.req].status = "fulfilled")
      => (c.result.t = "cred" /\ c.result = reqs[c.req].value)
C7_LoginAfterSettle == []C7_Fulfilled /\ [][C7_NotStale]_vars

C7_Witness ==
  \E c \in Active :
    /\ c.op = "login" /\ c.pc = "done" /\ c.result.t = "cred"
    /\ \E q \in Requests :
         q < c.req /\ reqs[q].status = "rejected" /\ reqs[q].body = c.payload
    /\ storage = NoItem

\* C8: when POST /refresh/ fails, the failure removes the stored credential
\* in the same step in which the refresh settles, before any caller can
\* see the result, and every caller attached to it gets null.
C8_Null ==
  \A c \in Active :
    (c.op = "getValidToken" /\ c.pc = "done" /\ c.req # 0
       /\ reqs[c.req].status # "fulfilled") => c.result = NullResult
C8_Removed ==
  \A q \in Requests :
    (InFlight(q) /\ reqs[q].path = UriRefresh /\ reqs'[q].status # "pending"
       /\ reqs'[q].status # "fulfilled") => storage' = NoItem
C8_RefreshFailure == []C8_Null /\ [][C8_Removed]_vars

C8_Witness ==
  \E c \in Active :
    /\ c.op = "getValidToken" /\ c.pc = "done" /\ c.result = NullResult
    /\ CopiesIn(c, calls) >= 2
    /\ c.req # 0 /\ reqs[c.req].status = "failed"
    /\ storage = NoItem

\* C9: getValidToken never rejects: every settled call holds a credential
\* or null, and no refresh promise is rejected.
C9_NeverRejects ==
  /\ \A c \in Active :
       (c.op = "getValidToken" /\ c.pc = "done") => c.result.t \in {"cred", "null"}
  /\ \A q \in Requests : reqs[q].path = UriRefresh => reqs[q].status # "rejected"

C9_Witness ==
  /\ \E c \in Active :
       c.op = "getValidToken" /\ c.pc = "done" /\ c.req = 0 /\ c.result = NullResult
  /\ \E c \in Active :
       /\ c.op = "getValidToken" /\ c.pc = "done" /\ c.result = NullResult
       /\ c.req # 0 /\ reqs[c.req].status = "failed"
  /\ \E c \in Active :
       c.op = "getValidToken" /\ c.pc = "done" /\ c.result.t = "cred"

\* C10: when the access token read from storage expires more than 60
\* seconds after the current time, getValidToken returns that credential
\* and sends no request, and leaves storage and the registry unchanged.
C10_Valid(token, ms) ==
  /\ HasTokens(token)
  /\ Decodable(token)
  /\ "exp" \in DOMAIN parseJwt(token.v.access).claims
  /\ parseJwt(token.v.access).claims.exp * 1000 - ms > ONE_MINUTE_IN_SECONDS * 1000
C10_Step ==
  \A c \in Active :
    (c.op = "getValidToken" /\ c.pc = "read" /\ Left(c) /\ C10_Valid(c.token, nowMs)) =>
      /\ Arrived(Done(c, CredResult(c.token.v)))
      /\ reqs' = reqs
      /\ storage' = storage
      /\ requestCache' = requestCache
C10_ShortCircuit == [][C10_Step]_vars

C10_Witness ==
  /\ Len(reqs) = 0
  /\ storage # NoItem
  /\ \E c \in Active :
       /\ c.op = "getValidToken" /\ c.pc = "done" /\ c.req = 0
       /\ c.result = CredResult(JSONparse(storage).v)
\* C11: when getValidToken reads no credential from storage, or a record
\* without its access or without its refresh token, it returns null, the
\* storage record is removed, and no request is sent.
C11_Missing(token) ==
  \/ token = NullResult
  \/ "access" \notin DOMAIN token.v
  \/ "refresh" \notin DOMAIN token.v
C11_Step ==
  \A c \in Active :
    (c.op = "getValidToken" /\ c.pc = "read" /\ Left(c) /\ C11_Missing(c.token)) =>
      /\ Arrived(Done(c, NullResult))
      /\ storage' = NoItem
      /\ reqs' = reqs
C11_MissingTokens == [][C11_Step]_vars

C11_Witness ==
  /\ storage = NoItem
  /\ Len(reqs) = 0
  /\ \E c \in Active :
       /\ c.op = "getValidToken" /\ c.pc = "done" /\ c.result = NullResult
       /\ c.token # NullResult /\ "refresh" \notin DOMAIN c.token.v
  /\ \E c \in Active :
       /\ c.op = "getValidToken" /\ c.pc = "done" /\ c.result = NullResult
       /\ c.token = NullResult

\* C12: when the stored access token cannot be decoded (fewer than three
\* segments, a payload that is not base64, a payload that is not JSON),
\* getValidToken returns null, removes the storage record and sends no
\* request.
C12_Undecodable(access) ==
  \/ Len(access) < 3
  \/ ~access[2].b64
  \/ access[2].json = "text"
C12_Step ==
  \A c \in Active :
    (c.op = "getValidToken" /\ c.pc = "read" /\ Left(c) /\ HasTokens(c.token)
       /\ C12_Undecodable(c.token.v.access)) =>
      /\ Arrived(Done(c, NullResult))
      /\ storage' = NoItem
      /\ reqs' = reqs
C12_UndecodableToken == [][C12_Step]_vars
\* C13: a refresh that succeeds with a pair writes exactly that pair to
\* storage in the step in which it settles and settles with that pair; a
\* caller attached to it observes that pair, and observing changes nothing
\* in storage: with no other operation between the two steps, storage
\* holds the pair the caller receives.
C13_Persisted ==
  \A q \in Requests :
    (InFlight(q) /\ reqs[q].path = UriRefresh /\ reqs'[q].status = "fulfilled") =>
      /\ reqs'[q].value.t = "cred"
      /\ retrieveFromLocalStorage(storage') = [t |-> "obj", v |-> reqs'[q].value.v]
C13_Observed ==
  \A d \in BagToSet(calls') :
    (d.op = "getValidToken" /\ d.pc = "done" /\ Arrived(d) /\ d.req # 0
       /\ reqs[d.req].status = "fulfilled") =>
      /\ d.result = reqs[d.req].value
      /\ storage' = storage
C13_RefreshSuccess == [][C13_Persisted /\ C13_Observed]_vars

C13_Witness ==
  \E c \in Active :
    /\ c.op = "getValidToken" /\ c.pc = "done" /\ c.req # 0
    /\ c.result.t = "cred"
    /\ c.result.v.refresh = <<"r", "2">>
    /\ retrieveFromLocalStorage(storage) = [t |-> "obj", v |-> c.result.v]

\* C14: a getValidToken call that reads a near-expiry credential is only
\* ever attached to a POST /refresh/ in flight that carries the refresh
\* token it read.
C14_Step ==
  \A c \in Active :
    (c.op = "getValidToken" /\ c.pc = "read" /\ Left(c) /\ NearExpiry(c.token, nowMs)) =>
      \A d \in BagToSet(calls') :
        (d.op = "getValidToken" /\ Waiting(d) /\ Arrived(d)
           /\ reqs'[d.req].status = "pending") =>
          reqs'[d.req].body.refresh = c.token.v.refresh
C14_OwnRefresh == [][C14_Step]_vars
\* C15: once a caller has observed a login settle, the registry no longer
\* maps its key to that login, so a login with the same credentials made
\* from then on is attached to another POST /login/.
C15_Removed ==
  \A c \in Active :
    (c.op = "login" /\ c.pc = "done") =>
      ~(c.key \in DOMAIN requestCache /\ requestCache[c.key] = c.req)
C15_NewPost ==
  \A c \in Active :
    (c.op = "login" /\ c.pc = "done") =>
      \A d \in BagToSet(calls') :
        (d.op = "login" /\ Waiting(d) /\ Arrived(d) /\ d.payload = c.payload)
          => d.req # c.req
C15_EntryRemovedFirst == []C15_Removed /\ [][C15_NewPost]_vars

C15_Witness ==
  \E c, d \in Active :
    /\ c.op = "login" /\ c.pc = "done"
    /\ d.op = "login" /\ d.pc = "owner" /\ d.payload = c.payload
    /\ d.req > c.req /\ InFlight(d.req)
    /\ requestCache[d.key] = d.req

\* C16: logout() can be called in every state, in particular while a login
\* or a refresh is in flight; it changes nothing but storage, and storage
\* read right after it gives null.
C16_Callable == ENABLED Logout
C16_Step ==
  Logout => /\ retrieveFromLocalStorage(storage') = NullResult
            /\ reqs' = reqs
            /\ calls' = calls
C16_LogoutSynchronous == []C16_Callable /\ [][C16_Step]_vars

C16_Witness ==
  /\ storage = NoItem
  /\ \E q \in Requests : InFlight(q) /\ reqs[q].path = UriRefresh
  /\ \E q \in Requests : reqs[q].path = UriLogin /\ reqs[q].status = "fulfilled"
  /\ \A q \in Requests : reqs[q].removes = 0
  /\ \E c \in Active :
       /\ c.op = "getValidToken" /\ c.pc = "read" /\ c.token = NullResult
       /\ c.settledBefore # {}

\* C17: a logout while a refresh is in flight leaves the refresh in flight,
\* and a refresh that succeeds writes its credential whatever storage held,
\* so storage is not empty in the state in which it has settled.
C17_Step ==
  \A q \in Requests :
    (InFlight(q) /\ reqs[q].path = UriRefresh) =>
      /\ Logout => reqs'[q] = reqs[q]
      /\ reqs'[q].status = "fulfilled" =>
           /\ storage' # NoItem
           /\ storage' = JSONstringify(reqs'[q].value.v)
C17_RefreshOutlivesLogout == [][C17_Step]_vars

C17_Witness ==
  /\ Len(reqs) = 2
  /\ reqs[1].path = UriRefresh /\ reqs[1].status = "fulfilled"
  /\ reqs[2].path = UriLogin /\ reqs[2].status = "fulfilled"
  /\ storage = JSONstringify(reqs[1].value.v)
  /\ \E c \in Active :
       /\ c.op = "getValidToken" /\ c.pc = "read" /\ c.token = NullResult
       /\ c.settledBefore = {2}

\* C18: when a login call is rejected, storage holds no credential.
C18_Step ==
  \A d \in BagToSet(calls') :
    (d.op = "login" /\ d.pc = "done" /\ Arrived(d) /\ d.result.t = "error")
      => storage' = NoItem
C18_NoCredentialAfterRejection == [][C18_Step]_vars

\* C19: a login that succeeds writes the whole returned credential to
\* storage, once, in the step in which it settles, so that write has
\* happened when any caller observes the fulfilment.
C19_Stored ==
  \A q \in Requests :
    (InFlight(q) /\ reqs[q].path = UriLogin /\ reqs'[q].status = "fulfilled") =>
      /\ retrieveFromLocalStorage(storage') = [t |-> "obj", v |-> reqs'[q].value.v]
      /\ reqs'[q].sets = 1
C19_Before ==
  \A c \in Active :
    (c.op = "login" /\ c.pc = "done" /\ c.result.t = "cred") => reqs[c.req].sets = 1
C19_StoreBeforeFulfilment == []C19_Before /\ [][C19_Stored]_vars

C19_Witness ==
  \E c \in Active :
    /\ c.op = "login" /\ c.pc = "done" /\ c.result.t = "cred"
    /\ reqs[c.req].sets = 1
    /\ retrieveFromLocalStorage(storage) = [t |-> "obj", v |-> c.result.v]
    /\ \E d \in Active : d.op = "login" /\ d.pc = "joined" /\ d.req = c.req
\* C20: a getAll or getByUser call made with a query string is never
\* attached to a GET that was sent for another query string: the GET it is
\* attached to was sent for its own query, and a getByUser call receives
\* the result of the uri of its own query.
C20_OwnQuery ==
  \A c \in Active :
    (c.op \in {"getAll", "getByUser"} /\ c.payload.t = "str"
       /\ reqs[c.req].body.t = "str") =>
      /\ reqs[c.req].body = c.payload
      /\ (c.op = "getByUser" /\ c.pc = "done" /\ c.result.t = "data")
           => c.result.of = UriByUser(c.payload)
\* C21: getById calls for the same brand id, given as a number or as a
\* string, that arrive while a GET for that id is in flight send nothing
\* and join it; every getById call is attached to a GET /brands/{id}/ of
\* its own id and receives what that GET returned.
C21_ByIdRequest(q) ==
  Len(reqs[q].path) >= 3 /\ reqs[q].path[1] = "/brands/" /\ reqs[q].path[2] # "?query="
C21_Attached ==
  \A c \in Active : c.op = "getById" =>
    /\ reqs[c.req].path = <<"/brands/">> \o c.payload.s \o <<"/">>
    /\ reqs[c.req].body.s = c.payload.s
    /\ c.pc = "done" => c.result = reqs[c.req].value
C21_Joins ==
  \A d \in BagToSet(calls') :
    (d.op = "getById" /\ Waiting(d) /\ Arrived(d)) =>
      \A q \in Requests :
        (InFlight(q) /\ C21_ByIdRequest(q) /\ reqs[q].body.s = d.payload.s)
          => (reqs' = reqs /\ d.req = q)
C21_ByIdCollapse == []C21_Attached /\ [][C21_Joins]_vars

C21_Witness ==
  \E c, d, e \in Active :
    /\ c.op = "getById" /\ c.payload = Num(<<"1">>) /\ c.pc = "done"
    /\ d.op = "getById" /\ d.payload = Str(<<"1">>) /\ d.pc = "done"
    /\ c.req = d.req /\ c.result.t = "data" /\ d.result = c.result
    /\ e.op = "getById" /\ e.payload = Str(<<"2">>) /\ e.req # c.req
    /\ Len(reqs) = 2

\* C25: once a getAll, getByUser or getById call has settled, the slot of
\* its key no longer holds its request, and a call for the same key made
\* from then on is attached to another GET.
C25_Slot(c) ==
  IF c.op = "getAll" THEN getAllPromise
  ELSE IF c.op = "getByUser" THEN getByUserPromise
  ELSE IF c.key \in DOMAIN getByIdPromises THEN getByIdPromises[c.key]
  ELSE NoPromise
C25_SameKey(c, d) ==
  d.op = c.op /\ (c.op = "getById" => d.payload.s = c.payload.s)
C25_Cleared ==
  \A c \in Active :
    (c.op \in {"getAll", "getByUser", "getById"} /\ c.pc = "done")
      => C25_Slot(c) # c.req
C25_NewGet ==
  \A c \in Active :
    (c.op \in {"getAll", "getByUser", "getById"} /\ c.pc = "done") =>
      \A d \in BagToSet(calls') :
        (Waiting(d) /\ Arrived(d) /\ C25_SameKey(c, d)) => d.req # c.req
C25_SlotCleared == []C25_Cleared /\ [][C25_NewGet]_vars

C25_Witness ==
  \E c, d \in Active :
    /\ c.op = "getAll" /\ c.pc = "done" /\ c.result.t = "error"
    /\ d.op = "getAll" /\ d.pc = "done" /\ d.result.t = "data"
    /\ d.req > c.req

\* C22: getMyUser() calls on one instance that arrive while its GET
\* /users/me/ is in flight send no further request: each is attached to the
\* request in flight, which that instance sent, and each receives what that
\* one request settled with.
C22_MeRequest(q, i) == reqs[q].path = UriMe /\ reqs[q].body = i
C22_Attached ==
  \A c \in Active : c.op = "getMyUser" =>
    /\ C22_MeRequest(c.req, c.payload)
    /\ c.pc = "done" => c.result = reqs[c.req].value
C22_Joins ==
  \A d \in BagToSet(calls') :
    (d.op = "getMyUser" /\ Waiting(d) /\ Arrived(d)) =>
      \A q \in Requests :
        (InFlight(q) /\ C22_MeRequest(q, d.payload)) => (reqs' = reqs /\ d.req = q)
C22_MeCollapse == []C22_Attached /\ [][C22_Joins]_vars

C22_Witness ==
  \E c \in Active :
    /\ c.op = "getMyUser" /\ c.pc = "done" /\ c.result = DataResult(UriMe)
    /\ CopiesIn(c, calls) = NumCallers
    /\ Len(reqs) = 1

\* C23: once a getMyUser() call on an instance has rejected, a getMyUser()
\* call that arrives on that instance is not handed the rejected request:
\* it waits for a request that had not settled when it arrived.
C23_NewGetAfterRejection ==
  [][\A c \in Active :
       (c.op = "getMyUser" /\ c.pc = "done" /\ c.result.t = "error") =>
         \A d \in BagToSet(calls') :
           (d.op = "getMyUser" /\ Waiting(d) /\ Arrived(d) /\ d.payload = c.payload)
             => d.req # c.req]_vars

\* C24: a getMyUser() call on the singleton that arrives after the
\* singleton's GET /users/me/ was fulfilled sends no request and is attached
\* to that fulfilled request, whose data it receives.
C24_Cached ==
  \A d \in BagToSet(calls') :
    (d.op = "getMyUser" /\ Waiting(d) /\ Arrived(d) /\ d.payload = Inst(instance)) =>
      \A q \in Requests :
        (reqs[q].status = "fulfilled" /\ C22_MeRequest(q, d.payload))
          => (reqs' = reqs /\ d.req = q)
C24_SameData ==
  \A c \in Active :
    (c.op = "getMyUser" /\ c.pc = "done" /\ reqs[c.req].status = "fulfilled")
      => c.result = DataResult(UriMe)
C24_FulfilledIsCached == []C24_SameData /\ [][C24_Cached]_vars

C24_Witness ==
  /\ instance # NoInstance
  /\ Len(reqs) = 1
  /\ \E c, d \in Active :
       /\ c.op = "getMyUser" /\ c.payload = Inst(instance)
       /\ c.pc = "done" /\ c.result = DataResult(UriMe)
       /\ d.op = "getMyUser" /\ d.payload = Inst(instance)
       /\ d.req = c.req /\ d.req \in d.settledBefore

\* C26: a getMyUser() call is only ever attached to a request that its own
\* instance sent: a call arriving on an instance that has sent no GET sends
\* its own, whatever the other instance has in flight, and a call arriving
\* on an instance whose GET is in flight joins that GET.
C26_OwnInstance ==
  \A c \in Active : c.op = "getMyUser" => reqs[c.req].body = c.payload
C26_Independent ==
  \A d \in BagToSet(calls') :
    (d.op = "getMyUser" /\ Waiting(d) /\ Arrived(d)) =>
      IF \E q \in Requests : C22_MeRequest(q, d.payload)
      THEN reqs' = reqs /\ C22_MeRequest(d.req, d.payload)
      ELSE /\ Len(reqs') = Len(reqs) + 1
           /\ d.req = Len(reqs')
           /\ reqs'[d.req] = NewReq(UriMe, d.payload)
C26_PerInstance == []C26_OwnInstance /\ [][C26_Independent]_vars

C26_Witness ==
  \E c, e \in Active :
    /\ c.op = "getMyUser" /\ c.payload = Inst(1) /\ CopiesIn(c, calls) = 2
    /\ e.op = "getMyUser" /\ e.payload = Inst(2)
    /\ c.req # e.req
    /\ InFlight(c.req) /\ InFlight(e.req)

\* C27: getInstance() returns the static instance as it is after the call;
\* when there was one, it is returned unchanged and nothing is constructed;
\* when there was none (first use, or after resetInstance()) a new object
\* with an empty request cache is constructed; and the static instance is
\* replaced by nothing but resetInstance()'s null.
C27_Returned ==
  \A d \in BagToSet(calls') :
    (d.op = "getInstance" /\ Arrived(d)) =>
      /\ instance' # NoInstance
      /\ d.result = RefResult(instance')
      /\ IF instance # NoInstance
         THEN instance' = instance /\ userCaches' = userCaches
         ELSE /\ instance' = Len(userCaches) + 1
              /\ userCaches' = Append(userCaches, << >>)
C27_Replaced ==
  instance' # instance => (instance = NoInstance \/ instance' = NoInstance)
C27_Singleton == [][C27_Returned /\ C27_Replaced]_vars

C27_Witness ==
  /\ instance = 2
  /\ userCaches[1] # << >>
  /\ userCaches[2] = << >>
  /\ \E c, d \in Active :
       /\ c.op = "getInstance" /\ c.result = RefResult(1) /\ CopiesIn(c, calls) = 2
       /\ d.op = "getInstance" /\ d.result = RefResult(2)

\* C28: every update / updateMyUser call sends a PATCH of its own, also
\* while an identical PATCH is in flight, and leaves the requests already
\* sent and every read slot of both services as they were.
C28_IsWrite(d) == d.op \in {"update", "updateMyUser"}
C28_OwnPatch ==
  \A d \in BagToSet(calls') :
    (C28_IsWrite(d) /\ Waiting(d) /\ Arrived(d)) =>
      /\ Len(reqs') = Len(reqs) + 1
      /\ SubSeq(reqs', 1, Len(reqs)) = reqs
      /\ d.req = Len(reqs')
      /\ reqs'[d.req].path[1] = "PATCH"
      /\ reqs'[d.req].status = "pending"
      /\ UNCHANGED <<brandVars, userVars>>
C28_WritesNotDeduplicated == [][C28_OwnPatch]_vars

C28_Witness ==
  \E c, d, e \in Active :
    /\ c.op = "update" /\ d.op = "update" /\ d.payload = c.payload
    /\ c.req # d.req /\ InFlight(c.req) /\ InFlight(d.req)
    /\ reqs[c.req].path = reqs[d.req].path /\ reqs[c.req].body = reqs[d.req].body
    /\ e.op = "getById" /\ e.payload = c.payload /\ InFlight(e.req)
    /\ String(e.payload) \in DOMAIN getByIdPromises

\* C29: a getCurrentToken() call settles at once, fulfilled and never
\* rejected: with null when the stored item is absent or is not JSON, and
\* otherwise with the object the stored text parses to; the call sends no
\* request and leaves storage as it was.
C29_Parsed(st) ==
  IF st = NoItem \/ ~JSONparse(st).ok THEN NullResult
  ELSE [t |-> "obj", v |-> JSONparse(st).v]
C29_Read ==
  \A d \in BagToSet(calls') :
    (d.op = "getCurrentToken" /\ Arrived(d)) =>
      /\ d.pc = "done"
      /\ d.result.t # "error"
      /\ d.result = C29_Parsed(storage)
      /\ storage' = storage
      /\ reqs' = reqs
C29_CurrentToken == [][C29_Read]_vars

\* storage holds text that is not JSON (no step writes such text, so it was
\* there all along), a call has returned null for it, and in this run the
\* read is not the only thing that went on: a login request is in flight
C29_Witness ==
  /\ storage = Garbage
  /\ \E c \in Active : c.op = "getCurrentToken" /\ c.result = NullResult
  /\ \E q \in Requests : InFlight(q)

\* C30 as stated: in every state the stored item is absent or is a record
\* with both fields, access and refresh.
C30_AbsentOrWholePair ==
  \/ storage = NoItem
  \/ /\ JSONparse(storage).ok
     /\ DOMAIN JSONparse(storage).v = {"access", "refresh"}

\* C30: every step that changes storage either removes the item or
\* replaces it with the whole pair of one response: the response with which
\* a request is fulfilled in that very step.
C30_Write ==
  storage' # storage =>
    \/ storage' = NoItem
    \/ \E q \in Requests :
         /\ reqs[q].status = "pending"
         /\ reqs'[q].status = "fulfilled"
         /\ reqs'[q].value.v \in Responses(q)
         /\ storage' = JSONstringify(reqs'[q].value.v)
C30_AtomicWrites == [][C30_Write]_vars

\* two requests were fulfilled with different pairs, a stored refresh token
\* was used for one of them, and storage holds exactly the later pair
C30_Witness ==
  /\ Len(reqs) = 2
  /\ reqs[1].status = "fulfilled" /\ reqs[2].status = "fulfilled"
  /\ reqs[1].path = UriLogin /\ reqs[2].path = UriRefresh
  /\ reqs[1].value.v.refresh # reqs[2].value.v.refresh
  /\ storage = JSONstringify(reqs[2].value.v)

\* C31: for a stored credential whose access token decodes to a payload
\* with expiry exp, and now = floor(Date.now() / 1000): when now >= exp - 60
\* getValidToken waits for a POST /refresh/ (one it sends or one in the
\* registry) and does not return the stored credential; when now < exp - 60
\* it returns the stored credential and sends nothing.
C31_HasExp(token) ==
  /\ HasTokens(token)
  /\ Decodable(token)
  /\ "exp" \in DOMAIN parseJwt(token.v.access).claims
C31_Refreshes(c) ==
  /\ ~Arrived(Done(c, CredResult(c.token.v)))
  /\ \E d \in BagToSet(calls') :
       /\ Arrived(d) /\ d.op = "getValidToken" /\ d.pc = "joined"
       /\ d.req \in 1..Len(reqs')
       /\ reqs'[d.req].path = UriRefresh
       /\ \/ reqs' = reqs
          \/ Len(reqs') = Len(reqs) + 1 /\ d.req = Len(reqs')
C31_Returns(c) ==
  /\ Arrived(Done(c, CredResult(c.token.v)))
  /\ reqs' = reqs
C31_Step ==
  \A c \in Active :
    (c.op = "getValidToken" /\ c.pc = "read" /\ Left(c) /\ C31_HasExp(c.token)) =>
      LET now == nowMs \div 1000
          exp == parseJwt(c.token.v.access).claims.exp
      IN  IF now >= exp - 60 THEN C31_Refreshes(c) ELSE C31_Returns(c)
C31_GuardWindow == [][C31_Step]_vars

\* the same stored credential (exp = 100) was returned at now = 39 and is
\* being refreshed at now = 40
C31_Witness ==
  /\ nowMs = 40000
  /\ \E c, d \in Active :
       /\ c.op = "getValidToken" /\ c.pc = "done"
       /\ c.result = CredResult(Credential(100, 0, <<"r", "1">>))
       /\ d.op = "getValidToken" /\ d.pc = "joined"
       /\ reqs[d.req].path = UriRefresh
       /\ reqs[d.req].body = RefreshBody(<<"r", "1">>)
       /\ InFlight(d.req)

\* C35: after logout() the request registry holds no entry for a refresh
\* that has already settled.
C35_NoSettledRefresh(cache) ==
  \A k \in DOMAIN cache :
    reqs[cache[k]].path = UriRefresh => reqs[cache[k]].status = "pending"
C35_ClearedOnLogout == [][Logout => C35_NoSettledRefresh(requestCache')]_vars

\* C36: the refresh token in the body of a POST /refresh/ that
\* getValidToken sends is the refresh token that storage holds in the state
\* in which the request is sent.
C36_Sent ==
  (Len(reqs') = Len(reqs) + 1 /\ reqs'[Len(reqs')].path = UriRefresh) =>
    /\ HasTokens(retrieveFromLocalStorage(storage))
    /\ reqs'[Len(reqs')].body = RefreshBody(JSONparse(storage).v.refresh)
C36_StoredRefreshToken == [][C36_Sent]_vars

\* C37: while storage holds the credential that a fulfilled POST /login/
\* persisted, the settlement of a POST /refresh/ that was sent before that
\* login request leaves storage as it is.
C37_Persisted(ql) ==
  /\ reqs[ql].path = UriLogin
  /\ reqs[ql].status = "fulfilled"
  /\ storage = JSONstringify(reqs[ql].value.v)
C37_Settles ==
  \A qr, ql \in Requests :
    (/\ qr < ql
     /\ reqs[qr].path = UriRefresh /\ InFlight(qr) /\ reqs'[qr].status # "pending"
     /\ C37_Persisted(ql))
      => storage' = storage
C37_OldRefreshKeepsLogin == [][C37_Settles]_vars

\* C38: when a login call's cleanup runs while the registry slot holds a
\* login request of another call that is still in flight, the slot keeps
\* that request.
C38_Cleanup ==
  \A c \in Active :
    (/\ c.op = "login" /\ c.pc = "owner" /\ Left(c)
     /\ loginPromise # NoPromise /\ loginPromise # c.req /\ InFlight(loginPromise))
      => loginPromise' = loginPromise
C38_OwnEntryOnly == [][C38_Cleanup]_vars

\* C39: the rejection of POST /login/ and its delivery to the callers write
\* nothing: storage is unchanged in the step in which the request rejects
\* and in every step in which a login call settles with the error, and the
\* rejected request has performed no setItem and no removeItem.
C39_Rejects ==
  \A q \in Requests :
    (reqs[q].path = UriLogin /\ InFlight(q) /\ reqs'[q].status = "rejected")
      => storage' = storage
C39_Delivered ==
  \A d \in BagToSet(calls') :
    (d.op = "login" /\ d.pc = "done" /\ Arrived(d) /\ d.result.t = "error")
      => storage' = storage
C39_NoWrites ==
  \A q \in Requests :
    (reqs[q].path = UriLogin /\ reqs[q].status = "rejected")
      => reqs[q].sets = 0 /\ reqs[q].removes = 0
C39_RejectionKeepsStorage == []C39_NoWrites /\ [][C39_Rejects /\ C39_Delivered]_vars

\* a credential of an earlier session is in storage after the only request,
\* a login, has rejected and its caller has the error
C39_Witness ==
  /\ storage = JSONstringify(Credential(200, 0, <<"r", "1">>))
  /\ Len(reqs) = 1
  /\ reqs[1].path = UriLogin /\ reqs[1].status = "rejected"
  /\ \E c \in Active :
       c.op = "login" /\ c.pc = "done" /\ c.result = ErrorResult(1)

\* C40: a credential that getValidToken returns without waiting for a
\* refresh has an access token whose payload carries exp.
C40_ValidHasExp ==
  \A c \in Active :
    (c.op = "getValidToken" /\ c.pc = "done" /\ c.req = 0 /\ c.result.t = "cred")
      => "exp" \in DOMAIN parseJwt(c.result.v.access).claims

\* C32: no login, getValidToken or getMyUser call has settled while the
\* request it is attached to is pending, and once a request has settled
\* there comes a state in which no call attached to it is still waiting.
C32_AttachedTo(c, q) ==
  c.op \in {"login", "getValidToken", "getMyUser"} /\ c.req = q
C32_NoEarlySettle ==
  \A c \in Active :
    (c.pc = "done" /\ c.req # 0 /\ C32_AttachedTo(c, c.req)) => Settled(c.req)
C32_AllSettle ==
  \A q \in 1..MaxReqs :
    (q \in Requests /\ Settled(q) /\ \E c \in Active : Waiting(c) /\ C32_AttachedTo(c, q))
      ~> (\A c \in Active : C32_AttachedTo(c, q) => ~Waiting(c))
C32_StallTogether == []C32_NoEarlySettle /\ C32_AllSettle

\* two getValidToken calls that waited for one refresh have settled with
\* its credential, while a getMyUser call still waits for a pending GET
C32_Witness ==
  \E c, d \in Active :
    /\ c.op = "getValidToken" /\ c.pc = "done" /\ c.req # 0
    /\ CopiesIn(c, calls) = 2
    /\ reqs[c.req].path = UriRefresh
    /\ c.result = reqs[c.req].value /\ c.result.t = "cred"
    /\ d.op = "getMyUser" /\ Waiting(d) /\ InFlight(d.req)

\* C33: getAll (the version with insertMockUser) resolves with the
\* transport's response in which the user at 0-based index i has
\* id = skip + i + 1, skip being params.skip or 0; the other fields of a
\* user are the transport's, except that the user given id 4 is named
\* Miles Cummerata; total, skip and limit are the transport's; a response
\* that is not ok, or a failed fetch, rejects the call.
C33_Expected(user, id) ==
  IF id = 4
  THEN [id |-> 4, firstName |-> "Miles", lastName |-> "Cummerata",
        email |-> user.email]
  ELSE [id |-> id, firstName |-> user.firstName, lastName |-> user.lastName,
        email |-> user.email]
C33_Skip(params) ==
  IF params \in { Undefined, [limit |-> 13] } THEN 0 ELSE params.skip
C33_Adjusted(c) ==
  LET sent == reqs[c.req].value.v
      got == c.result.v
  IN  /\ c.result.t = "users"
      /\ DOMAIN got.users = DOMAIN sent.users
      /\ \A n \in DOMAIN sent.users :
           got.users[n] = C33_Expected(sent.users[n], C33_Skip(c.payload) + n)
      /\ got.total = sent.total
      /\ got.skip = sent.skip
      /\ got.limit = sent.limit
C33_MockUserInserted ==
  \A c \in Active :
    (c.op = "users.getAll" /\ c.pc = "done") =>
      IF reqs[c.req].status = "fulfilled" THEN C33_Adjusted(c)
      ELSE c.result.t = "error" /\ c.result = reqs[c.req].value
C33_Witness ==
  \E c, d \in Active :
    /\ c.op = "users.getAll" /\ c.pc = "done"
    /\ c.payload = [skip |-> 3]
    /\ reqs[c.req].status = "fulfilled"
    /\ Len(c.result.v.users) = 2
    /\ c.result.v.users[1].firstName = "Miles"
    /\ reqs[c.req].value.v.users[1].firstName = "Terry"
    /\ c.result.v.users[2].id = 5
    /\ c.result.v.skip = 0
    /\ d.op = "users.getAll" /\ d.pc = "done"
    /\ reqs[d.req].status = "rejected"
    /\ d.result.t = "error"

\* C34: the hook asks getAll for limit = pageSize (13 when no pageSize is
\* given) and skip = (page - 1) * pageSize; with data, totalPages is the
\* least n with n * pageSize >= total, hasNextPage is page < totalPages and
\* hasPreviousPage is page > 1; without data totalPages is 0 and
\* hasNextPage is false.
C34_PageSize(c) ==
  IF c.payload.pageSize = Undefined THEN 13 ELSE c.payload.pageSize.s
C34_Metadata(c) ==
  LET r == c.result
      page == c.payload.page
      size == C34_PageSize(c)
  IN  /\ reqs[c.req].body = [limit |-> size, skip |-> (page - 1) * size]
      /\ r.hasPreviousPage = (page > 1)
      /\ IF r.data # NoData
         THEN /\ r.totalPages * size >= r.data.v.total
              /\ (r.totalPages - 1) * size < r.data.v.total
              /\ r.hasNextPage = (page < r.totalPages)
         ELSE r.totalPages = 0 /\ r.hasNextPage = FALSE
====
